---- MODULE Spec2Model ----
(***************************************************************************)
(* Variational empowerment estimators of src/variational_empowerment.py:   *)
(* VariationalJointEmpowerment (one source/planning network shared by all  *)
(* agents) and VariationalTransferEmpowerment (one source/planning network *)
(* per agent), both with one shared transition network.                    *)
(*                                                                         *)
(* Tensors are modelled by their feature width (axis 1); the batch axis is *)
(* the same for every tensor of a call.  An approximator is modelled by    *)
(* its input/output width, its train/eval mode, the device it resides on,  *)
(* and, per parameter group, a version number of its parameters and the    *)
(* set of losses whose backward pass has accumulated into its gradients.   *)
(***************************************************************************)
EXTENDS Integers, Sequences, FiniteSets

VARIABLES
    variant,      \* "joint" | "transfer": which class the estimator is
    env,          \* [obs, acs]: per-agent observation widths / action counts
    init_dict,    \* the sizing parameters the estimator was constructed from
    nets,         \* [transition, source, planning]: in/out widths of the MLPs
    mode,         \* train/eval mode of every approximator
    loc,          \* device every approximator actually resides on
    trans_dev,    \* self.trans_dev
    source_dev,   \* self.source_dev
    plan_dev,     \* self.plan_dev
    niter,        \* self.niter
    grads,        \* per parameter group: the <<loss, call>> pairs accumulated
    params,       \* per parameter group: version of the parameters
    optim,        \* per optimizer: number of step() calls (Adam's state)
    steps,        \* the optimizer steps of the latest update call, in order
    log,          \* step indices passed to logger.add_scalars, in order
    hist,         \* per completed update call: whether a logger was given
    started,      \* number of update calls started
    last          \* the latest call on the estimator and its outcome

vars == <<variant, env, init_dict, nets, mode, loc, trans_dev, source_dev,
          plan_dev, niter, grads, params, optim, steps, log, hist, started, last>>

-----------------------------------------------------------------------------
(* Bounds of the model *)

\* largest number of agents of an environment
MaxAgents == 2

\* largest number of update calls started on one estimator
MaxIter == 2

\* observation widths and action cardinalities the environments draw from
ObsSizes == {1, 2}

ActionCounts == {1, 2}

\* the three-agent layout of the slicing scenario (observation widths 3, 5, 2)
ScenarioEnv == [obs |-> <<3, 5, 2>>, acs |-> <<2, 2, 2>>]

Envs ==
    { [obs |-> o, acs |-> a] :
        <<o, a>> \in UNION { [1..n -> ObsSizes] \X [1..n -> ActionCounts] : n \in 1..MaxAgents } }
    \cup {ScenarioEnv}

Devices == {"cpu", "gpu"}

Groups == {"transition", "source", "planning"}

\* values the sampled empowerment mean E.mean() may take (sign only)
EValues == {-1, 1}

-----------------------------------------------------------------------------
(* Tensor-shape helpers *)

RECURSIVE SumSeq(_)
SumSeq(s) == IF s = <<>> THEN 0 ELSE Head(s) + SumSeq(Tail(s))

Min(a, b) == IF a <= b THEN a ELSE b

Max(a, b) == IF a >= b THEN a ELSE b

\* torch broadcasting of two widths along axis 1 (elementwise ops, MSELoss)
Broadcastable(a, b) == a = b \/ a = 1 \/ b = 1

\* width of t[:, lo:hi] for a tensor of width w: Python slicing clips silently
SliceWidth(lo, hi, w) == Min(hi, w) - Min(lo, w)

\* a linear network accepts exactly its input width
Accepts(net, w) == net.in = w

-----------------------------------------------------------------------------
(* Construction *)

\* a sizing loop that keeps the first agent's source/planning sizes instead of
\* overwriting them at every iteration
JointLoopBodyKeepFirst(acc, obsp, acsp) ==
    [num_in_src    |-> IF acc.num_in_trans = 0 THEN obsp ELSE acc.num_in_src,
     num_out_src   |-> IF acc.num_in_trans = 0 THEN acsp ELSE acc.num_out_src,
     num_in_plan   |-> IF acc.num_in_trans = 0 THEN 2 * obsp ELSE acc.num_in_plan,
     num_out_plan  |-> IF acc.num_in_trans = 0 THEN acsp ELSE acc.num_out_plan,
     num_in_trans  |-> acc.num_in_trans + obsp + acsp,
     num_out_trans |-> acc.num_out_trans + obsp]

\* one iteration of the joint variant's sizing loop: the source/planning sizes
\* are assigned (overwritten), the transition sizes are accumulated
JointLoopBody(acc, obsp, acsp) ==
    [num_in_src    |-> obsp,
     num_out_src   |-> acsp,
     num_in_plan   |-> 2 * obsp,
     num_out_plan  |-> acsp,
     num_in_trans  |-> acc.num_in_trans + obsp + acsp,
     num_out_trans |-> acc.num_out_trans + obsp]

RECURSIVE JointLoop(_, _, _)
JointLoop(acc, e, i) ==
    IF i > Len(e.obs) THEN acc
    ELSE JointLoop(JointLoopBody(acc, e.obs[i], e.acs[i]), e, i + 1)

JointInitFromEnv(e) ==
    JointLoop([num_in_src |-> 0, num_out_src |-> 0, num_in_plan |-> 0,
               num_out_plan |-> 0, num_in_trans |-> 0, num_out_trans |-> 0], e, 1)

\* one iteration of the transfer variant's sizing loop: a record is appended
TransferLoopBody(acc, obsp, acsp) ==
    [init_params   |-> Append(acc.init_params,
                              [num_in_src   |-> obsp,
                               num_in_plan  |-> 2 * obsp,
                               num_out_src  |-> acsp,
                               num_out_plan |-> acsp]),
     num_in_trans  |-> acc.num_in_trans + obsp + acsp,
     num_out_trans |-> acc.num_out_trans + obsp]

RECURSIVE TransferLoop(_, _, _)
TransferLoop(acc, e, i) ==
    IF i > Len(e.obs) THEN acc
    ELSE TransferLoop(TransferLoopBody(acc, e.obs[i], e.acs[i]), e, i + 1)

TransferInitFromEnv(e) ==
    TransferLoop([init_params |-> <<>>, num_in_trans |-> 0, num_out_trans |-> 0], e, 1)

\* VariationalJointEmpowerment.__init__: three networks
JointNets(p) ==
    [transition |-> [in |-> p.num_in_trans, out |-> p.num_out_trans],
     source     |-> << [in |-> p.num_in_src, out |-> p.num_out_src] >>,
     planning   |-> << [in |-> p.num_in_plan, out |-> p.num_out_plan] >>]

\* VariationalTransferEmpowerment.__init__: one source/planning network per record
TransferNets(d) ==
    [transition |-> [in |-> d.num_in_trans, out |-> d.num_out_trans],
     source     |-> [i \in 1..Len(d.init_params) |->
                        [in |-> d.init_params[i].num_in_src,
                         out |-> d.init_params[i].num_out_src]],
     planning   |-> [i \in 1..Len(d.init_params) |->
                        [in |-> d.init_params[i].num_in_plan,
                         out |-> d.init_params[i].num_out_plan]]]

InitFromEnv(v, e) == IF v = "joint" THEN JointInitFromEnv(e) ELSE TransferInitFromEnv(e)

NetsOf(v, d) == IF v = "joint" THEN JointNets(d) ELSE TransferNets(d)

\* the parameter groups each optimizer was built over
JointOptParams(opt) ==
    CASE opt = "transition" -> {"transition"}
      [] opt = "planning"   -> {"planning"}
      [] opt = "source"     -> {"source", "planning"}

TransferOptParams(opt) ==
    CASE opt = "transition" -> {"transition"}
      [] opt = "planning"   -> {"planning"}
      [] opt = "source"     -> {"source"}

OptParams(v, opt) == IF v = "joint" THEN JointOptParams(opt) ELSE TransferOptParams(opt)

NoCall ==
    [op |-> "init", ok |-> TRUE, device |-> "none", logger |-> FALSE,
     moved |-> [g \in Groups |-> 0], rep |-> FALSE, prevMoved |-> [g \in Groups |-> 0],
     shape |-> <<>>, entries |-> <<>>, slices |-> <<>>]

\* the state right after __init__ with sizing parameters d
Constructed(v, e, d) ==
    /\ variant = v
    /\ env = e
    /\ init_dict = d
    /\ nets = NetsOf(v, d)
    /\ mode = [transition |-> "train",
               source     |-> [i \in 1..Len(NetsOf(v, d).source) |-> "train"],
               planning   |-> [i \in 1..Len(NetsOf(v, d).planning) |-> "train"]]
    /\ loc = [transition |-> "cpu",
              source     |-> [i \in 1..Len(NetsOf(v, d).source) |-> "cpu"],
              planning   |-> [i \in 1..Len(NetsOf(v, d).planning) |-> "cpu"]]
    /\ trans_dev = "cpu"
    /\ source_dev = "cpu"
    /\ plan_dev = "cpu"
    /\ niter = 0
    /\ grads = [g \in Groups |-> {}]
    /\ params = [g \in Groups |-> 0]
    /\ optim = [g \in Groups |-> 0]
    /\ steps = <<>>
    /\ log = <<>>
    /\ hist = <<>>
    /\ started = 0
    /\ last = NoCall

\* an estimator built by init_from_env from any environment
Init ==
    \E v \in {"joint", "transfer"}, e \in Envs : Constructed(v, e, InitFromEnv(v, e))

-----------------------------------------------------------------------------
(* Mode / device controller: prep_training, prep_rollouts *)

\* the device test inverted
FnInverted(device) == IF device = "gpu" THEN "cpu" ELSE "gpu"

\* fn = lambda x: x.cuda() if device == 'gpu' else lambda x: x.cpu():
\* the device the module is on after fn (nn.Module moves in place)
Fn(device) == IF device = "gpu" THEN "gpu" ELSE "cpu"

\* a transfer on every call, whatever the stored tag
NeedsMoveAlways(tag, device) == TRUE

\* the guard "if not self.<tag> == device"
NeedsMove(tag, device) == ~(tag = device)

AllOf(s, x) == [i \in 1..Len(s) |-> x]

\* the devices after the three guarded transfers (same in all four methods)
MovedLoc(device) ==
    [transition |-> IF NeedsMove(trans_dev, device) THEN Fn(device) ELSE loc.transition,
     source     |-> IF NeedsMove(source_dev, device)
                    THEN AllOf(loc.source, Fn(device)) ELSE loc.source,
     planning   |-> IF NeedsMove(plan_dev, device)
                    THEN AllOf(loc.planning, Fn(device)) ELSE loc.planning]

\* how many times each group's transfer branch ran in this call
MovedCount(device) ==
    [g \in Groups |->
        CASE g = "transition" -> IF NeedsMove(trans_dev, device) THEN 1 ELSE 0
          [] g = "source"     -> IF NeedsMove(source_dev, device) THEN 1 ELSE 0
          [] g = "planning"   -> IF NeedsMove(plan_dev, device) THEN 1 ELSE 0]

NewTag(tag, device) == IF NeedsMove(tag, device) THEN device ELSE tag

\* joint prep_training: .train() on the three networks, unconditionally
JointTrainingMode(device) ==
    [transition |-> "train",
     source     |-> AllOf(mode.source, "train"),
     planning   |-> AllOf(mode.planning, "train")]

\* transfer prep_training: transition.train() unconditionally; source.train()
\* and planning.train() sit inside the transfer branches
TransferTrainingMode(device) ==
    [transition |-> "train",
     source     |-> IF NeedsMove(source_dev, device)
                    THEN AllOf(mode.source, "train") ELSE mode.source,
     planning   |-> IF NeedsMove(plan_dev, device)
                    THEN AllOf(mode.planning, "train") ELSE mode.planning]

\* joint prep_rollouts: .eval() on the three networks, unconditionally
JointRolloutsMode(device) ==
    [transition |-> "eval",
     source     |-> AllOf(mode.source, "eval"),
     planning   |-> AllOf(mode.planning, "eval")]

\* transfer prep_rollouts: .eval() after (outside) each transfer branch
TransferRolloutsMode(device) ==
    [transition |-> "eval",
     source     |-> AllOf(mode.source, "eval"),
     planning   |-> AllOf(mode.planning, "eval")]

PrepCall(op, device) ==
    [NoCall EXCEPT !.op = op, !.device = device,
                   !.moved = MovedCount(device),
                   !.rep = (last.op = op /\ last.device = device),
                   !.prevMoved = IF last.op = op /\ last.device = device
                                 THEN last.moved ELSE [g \in Groups |-> 0]]

PrepDevices(device) ==
    /\ loc' = MovedLoc(device)
    /\ trans_dev' = NewTag(trans_dev, device)
    /\ source_dev' = NewTag(source_dev, device)
    /\ plan_dev' = NewTag(plan_dev, device)

prep_training(device) ==
    /\ mode' = IF variant = "joint" THEN JointTrainingMode(device)
               ELSE TransferTrainingMode(device)
    /\ PrepDevices(device)
    /\ last' = PrepCall("prep_training", device)
    /\ UNCHANGED <<variant, env, init_dict, nets, niter, grads, params, optim,
                   steps, log, hist, started>>

prep_rollouts(device) ==
    /\ mode' = IF variant = "joint" THEN JointRolloutsMode(device)
               ELSE TransferRolloutsMode(device)
    /\ PrepDevices(device)
    /\ last' = PrepCall("prep_rollouts", device)
    /\ UNCHANGED <<variant, env, init_dict, nets, niter, grads, params, optim,
                   steps, log, hist, started>>

-----------------------------------------------------------------------------
(* The empowerment forward pass shared by compute and step 3 of update *)

SrcNet(v, ns, i) == IF v = "joint" THEN ns.source[1] ELSE ns.source[i]

PlanNet(v, ns, i) == IF v = "joint" THEN ns.planning[1] ELSE ns.planning[i]

\* width of torch.cat(acs_src, dim=1) / torch.cat(prob_src, dim=1)
SrcWidth(v, ns, n) == SumSeq([i \in 1..n |-> SrcNet(v, ns, i).out])

\* width of torch.cat(prob_plan, dim=1)
PlanWidth(v, ns, n) == SumSeq([i \in 1..n |-> PlanNet(v, ns, i).out])

\* joint variant: nno = trans_out[:, i*n_obs:(i+1)*n_obs], n_obs the first
\* agent's width
JointSlices(obs) ==
    LET n_obs == obs[1]
    IN  [i \in 1..Len(obs) |-> <<(i - 1) * n_obs, i * n_obs>>]

\* transfer compute: start = 0 before the loop; the loop body does not
\* advance it
RECURSIVE TransferComputeLoop(_, _, _, _)
TransferComputeLoop(obs, i, start, acc) ==
    IF i > Len(obs) THEN acc
    ELSE TransferComputeLoop(obs, i + 1, start,
                             Append(acc, <<start, start + obs[i]>>))

TransferComputeSlices(obs) == TransferComputeLoop(obs, 1, 0, <<>>)

\* transfer update: start = 0 before the loop; start += length in the body
RECURSIVE TransferUpdateLoop(_, _, _, _)
TransferUpdateLoop(obs, i, start, acc) ==
    IF i > Len(obs) THEN acc
    ELSE TransferUpdateLoop(obs, i + 1, start + obs[i],
                            Append(acc, <<start, start + obs[i]>>))

TransferUpdateSlices(obs) == TransferUpdateLoop(obs, 1, 0, <<>>)

ComputeSlices(v, obs) == IF v = "joint" THEN JointSlices(obs) ELSE TransferComputeSlices(obs)

UpdateSlices(v, obs) == IF v = "joint" THEN JointSlices(obs) ELSE TransferUpdateSlices(obs)

\* whether every tensor operation of the pass accepts its operands:
\* source(no); transition(cat(next_obs, acs_src)); planning(cat(no, nno));
\* E = acs_src * prob_plan - acs_src * prob_src
EmpForwardOk(v, ns, obs, sl) ==
    LET n == Len(obs)
        A == SrcWidth(v, ns, n)
        P == PlanWidth(v, ns, n)
    IN  /\ \A i \in 1..n : Accepts(SrcNet(v, ns, i), obs[i])
        /\ Accepts(ns.transition, SumSeq(obs) + A)
        /\ \A i \in 1..n :
              Accepts(PlanNet(v, ns, i),
                      obs[i] + SliceWidth(sl[i][1], sl[i][2], ns.transition.out))
        /\ Broadcastable(A, P)
        /\ Broadcastable(Max(A, P), A)

\* the axes of the result swapped
ResultShapeColumn(n) == <<n, 1>>

\* shape of E.mean() * torch.ones((1, rewards.shape[1])), kept by .numpy()
ResultShape(n) == <<1, n>>

\* compute(rewards, next_obs): rewards has one column per agent of the
\* environment and next_obs one observation batch per agent
compute ==
    \E e \in EValues :
    \E sl \in {ComputeSlices(variant, env.obs)} :
    \E ok \in {EmpForwardOk(variant, nets, env.obs, sl)} :
        /\ last' = [NoCall EXCEPT !.op = "compute", !.ok = ok,
                       !.shape = IF ok THEN ResultShape(Len(env.obs)) ELSE <<>>,
                       !.entries = IF ok THEN [i \in 1..Len(env.obs) |-> e] ELSE <<>>,
                       !.slices = IF ok THEN sl ELSE <<>>]
        /\ UNCHANGED <<variant, env, init_dict, nets, mode, loc, trans_dev,
                       source_dev, plan_dev, niter, grads, params, optim,
                       steps, log, hist, started>>

-----------------------------------------------------------------------------
(* update(sample, logger) *)

\* zero_grad() left out
ZeroGradSkipped(v, g, opt) == g

\* optimizer.zero_grad(): clears the gradients of the optimizer's own
\* parameters only
ZeroGrad(v, g, opt) ==
    [x \in Groups |-> IF x \in OptParams(v, opt) THEN {} ELSE g[x]]

\* the parameter groups a loss's graph reaches with gradient tracking on:
\* trans_loss is computed from transition(...); plan_loss from planning(...);
\* i_rews from source(...) and planning(...), the transition pass of step 3
\* being under torch.no_grad()
Reaches(loss) ==
    CASE loss = "trans_loss" -> {"transition"}
      [] loss = "plan_loss"  -> {"planning"}
      [] loss = "i_rews"     -> {"source", "planning"}

\* loss.backward() of update call number c: accumulates into .grad
Backward(g, loss, c) ==
    [x \in Groups |-> IF x \in Reaches(loss) THEN g[x] \cup {<<loss, c>>} ELSE g[x]]

\* optimizer.step(): moves the optimizer's own parameters
StepParams(v, p, opt) ==
    [x \in Groups |-> IF x \in OptParams(v, opt) THEN p[x] + 1 ELSE p[x]]

\* what an observer of the optimizer step records: the optimizer, the call,
\* the gradients its parameters hold as it steps, the groups it changed
StepRecord(v, opt, c, g, p, q) ==
    [opt     |-> opt,
     call    |-> c,
     seen    |-> [x \in OptParams(v, opt) |-> g[x]],
     changed |-> {x \in Groups : q[x] # p[x]}]

\* zero_grad, forward + loss (fwdOk: no shape failure), backward, step
OptimizerPass(v, m, opt, loss, c, fwdOk) ==
    LET g0 == ZeroGrad(v, m.grads, opt)
        g1 == Backward(g0, loss, c)
        p1 == StepParams(v, m.params, opt)
    IN  IF ~fwdOk
        THEN [m EXCEPT !.grads = g0, !.ok = FALSE]
        ELSE [m EXCEPT !.grads = g1,
                       !.params = p1,
                       !.optim = [m.optim EXCEPT ![opt] = @ + 1],
                       !.steps = Append(@, StepRecord(v, opt, c, g1, m.params, p1))]

\* step 1: transition(cat(obs, acs)); MSELoss against cat(next_obs)
TransForwardOk(ns, e) ==
    /\ Accepts(ns.transition, SumSeq(e.obs) + SumSeq(e.acs))
    /\ Broadcastable(ns.transition.out, SumSeq(e.obs))

\* step 2: planning(cat(o, no)) per agent; MSELoss(cat(acs_plan), cat(acs))
PlanForwardOk(v, ns, e) ==
    /\ \A i \in 1..Len(e.obs) : Accepts(PlanNet(v, ns, i), e.obs[i] + e.obs[i])
    /\ Broadcastable(PlanWidth(v, ns, Len(e.obs)), SumSeq(e.acs))

\* step 1: the transition optimizer's pass on trans_loss
Step1(v, ns, e, m, c) ==
    OptimizerPass(v, m, "transition", "trans_loss", c, TransForwardOk(ns, e))

\* step 2: the planning optimizer's pass on plan_loss
Step2(v, ns, e, m, c) ==
    OptimizerPass(v, m, "planning", "plan_loss", c, PlanForwardOk(v, ns, e))

\* step 3: the source optimizer's pass on i_rews = -E.mean()
Step3(v, ns, e, m, c) ==
    OptimizerPass(v, m, "source", "i_rews", c,
                  EmpForwardOk(v, ns, e.obs, UpdateSlices(v, e.obs)))

\* the counter incremented before it is logged
AfterLogPostIncrement(l, n, logger) == IF logger THEN Append(l, n + 1) ELSE l

\* if logger is not None: logger.add_scalars(..., self.niter)
AfterLog(l, n, logger) == IF logger THEN Append(l, n) ELSE l

\* self.niter += 1
NextNiter(n) == n + 1

\* the sample holds, per agent, observations and next observations of the
\* agent's observation width and one-hot actions of its action count
update(logger) ==
    /\ started < MaxIter
    /\ \E m1 \in {Step1(variant, nets, env,
                        [grads |-> grads, params |-> params, optim |-> optim,
                         steps |-> <<>>, ok |-> TRUE], started)} :
       \E m2 \in {IF m1.ok THEN Step2(variant, nets, env, m1, started) ELSE m1} :
       \E m \in {IF m2.ok THEN Step3(variant, nets, env, m2, started) ELSE m2} :
           /\ grads' = m.grads
           /\ params' = m.params
           /\ optim' = m.optim
           /\ steps' = m.steps
           /\ started' = started + 1
           /\ IF m.ok
              THEN /\ log' = AfterLog(log, niter, logger)
                   /\ niter' = NextNiter(niter)
                   /\ hist' = Append(hist, logger)
              ELSE UNCHANGED <<log, niter, hist>>
           /\ last' = [NoCall EXCEPT !.op = "update", !.ok = m.ok, !.logger = logger,
                          !.slices = IF m.ok THEN UpdateSlices(variant, env.obs) ELSE <<>>]
    /\ UNCHANGED <<variant, env, init_dict, nets, mode, loc, trans_dev,
                   source_dev, plan_dev>>

-----------------------------------------------------------------------------
(* Specifications *)

Next ==
    \/ \E d \in Devices : prep_training(d)
    \/ \E d \in Devices : prep_rollouts(d)
    \/ compute
    \/ \E lg \in BOOLEAN : update(lg)

Spec == Init /\ [][Next]_vars

\* an estimator built by calling the constructor directly, with sizing
\* parameters that need not fit the environment: the transition output width
\* or one planning output width is chosen freely
JointCtorParams(e) ==
    LET d == JointInitFromEnv(e)
    IN  { [d EXCEPT !.num_out_trans = t] : t \in 1..(SumSeq(e.obs) + 1) }
        \cup { [d EXCEPT !.num_out_plan = q] : q \in 1..(d.num_out_plan + 1) }

TransferCtorParams(e) ==
    LET d == TransferInitFromEnv(e)
    IN  { [d EXCEPT !.num_out_trans = t] : t \in 1..(SumSeq(e.obs) + 1) }
        \cup { [d EXCEPT !.init_params[i].num_out_plan = q] :
                 <<i, q>> \in { <<j, r>> \in (1..Len(e.obs)) \X (1..3) : r <= e.acs[j] + 1 } }

InitCtor ==
    \E v \in {"joint", "transfer"}, e \in Envs :
        \E d \in (IF v = "joint" THEN JointCtorParams(e) ELSE TransferCtorParams(e)) :
            Constructed(v, e, d)

SpecCtor == InitCtor /\ [][Next]_vars

-----------------------------------------------------------------------------
(* Vocabulary of the properties *)

NAgents == Len(env.obs)

PrepOps == {"prep_training", "prep_rollouts"}

\* the slice [sum(w_1..w_{i-1}) : sum(w_1..w_i)] of every agent
CumulativeSlices(obs) ==
    [i \in 1..Len(obs) |->
        <<SumSeq(SubSeq(obs, 1, i - 1)), SumSeq(SubSeq(obs, 1, i))>>]

AllInMode(x) ==
    /\ mode.transition = x
    /\ \A i \in 1..Len(mode.source) : mode.source[i] = x
    /\ \A i \in 1..Len(mode.planning) : mode.planning[i] = x

\* the widths the claim on sizing requires do not fit the environment
SizingMismatch ==
    \/ nets.transition.out # SumSeq(env.obs)
    \/ \E i \in 1..NAgents : PlanNet(variant, nets, i).out # env.acs[i]

\* the step indices a logger sees when update call k (0-based) is logged
\* exactly when h[k+1] holds
RECURSIVE ExpectedLog(_)
ExpectedLog(h) ==
    IF h = <<>> THEN <<>>
    ELSE LET front == ExpectedLog(SubSeq(h, 1, Len(h) - 1))
         IN  IF h[Len(h)] THEN Append(front, Len(h) - 1) ELSE front

StepOrder == <<"transition", "planning", "source">>

LossOf(opt) ==
    CASE opt = "transition" -> "trans_loss"
      [] opt = "planning"   -> "plan_loss"
      [] opt = "source"     -> "i_rews"

Tags == <<trans_dev, source_dev, plan_dev>>

-----------------------------------------------------------------------------
(* C1 *)

\* C1 (as claimed): in the transfer variant both compute and step 3 of update
\* take agent i's predicted next observation from the columns
\* [sum(w_1..w_{i-1}) : sum(w_1..w_i)] of the transition output; for widths
\* 3, 5, 2 these are [0:3], [3:8], [8:10].
C1_CumulativeSlices ==
    (variant = "transfer" /\ last.op \in {"compute", "update"} /\ last.ok)
        => /\ last.slices = CumulativeSlices(env.obs)
           /\ env.obs = <<3, 5, 2>> => last.slices = << <<0, 3>>, <<3, 8>>, <<8, 10>> >>

\* C1, the part the code keeps: step 3 of update slices cumulatively.
C1_UpdateSlicesCumulative ==
    (variant = "transfer" /\ last.op = "update" /\ last.ok)
        => last.slices = CumulativeSlices(env.obs)

-----------------------------------------------------------------------------
(* C2 *)

\* C2 (as claimed): when prep_training returns every approximator is in
\* training mode, and when prep_rollouts returns every approximator is in
\* evaluation mode, whether or not the device equals the stored tag.
C2_ModeAfterPrep ==
    /\ last.op = "prep_training" => AllInMode("train")
    /\ last.op = "prep_rollouts" => AllInMode("eval")

-----------------------------------------------------------------------------
(* C3 *)

\* C3 (as claimed): two consecutive prep_training(d) calls, or two consecutive
\* prep_rollouts(d) calls, transfer each approximator group exactly once in
\* total.
C3_ExactlyOnce ==
    (last.op \in PrepOps /\ last.rep)
        => \A g \in Groups : last.prevMoved[g] + last.moved[g] = 1

\* C3 (amended): the second of two consecutive prep_training(d) (or
\* prep_rollouts(d)) calls performs no transfer, leaves the device tags and
\* the devices unchanged, and the two calls together transfer each group at
\* most once: once when the stored tag differed from d before the first call,
\* not at all when it already equalled d.
C3_SecondCallNoOp ==
    /\ [](  (last.op \in PrepOps /\ last.rep)
            => /\ \A g \in Groups : last.moved[g] = 0 /\ last.prevMoved[g] \in {0, 1}
               /\ \A g \in Groups : last.prevMoved[g] = last.prevMoved["transition"]
               /\ Tags = <<last.device, last.device, last.device>> )
    /\ [][ (last'.op \in PrepOps /\ last'.rep) => (Tags' = Tags /\ loc' = loc) ]_vars

\* two consecutive prep_training("gpu") calls from the constructed state: the
\* first one transferred, the second did not
C3_Witness ==
    /\ last.op = "prep_training" /\ last.rep /\ last.device = "gpu"
    /\ \A g \in Groups : last.prevMoved[g] = 1 /\ last.moved[g] = 0

-----------------------------------------------------------------------------
(* C4 *)

\* C4: every update call that returns invokes logger.add_scalars exactly once
\* when given a logger and never otherwise; the step index passed is the
\* number of update calls completed before it, so the logged indices of
\* consecutive logged calls are 0, 1, 2, ...; niter counts the completed
\* update calls and never decreases.  (A call that ends in a shape failure
\* raises before the logger is reached and leaves niter as it was.)
C4_LoggerProtocol ==
    /\ [](  /\ niter = Len(hist)
            /\ log = ExpectedLog(hist)
            /\ (last.op = "update" /\ last.ok /\ last.logger)
                  => (log # <<>> /\ log[Len(log)] = niter - 1)
            /\ (\A k \in 1..Len(hist) : hist[k]) => log = [k \in 1..niter |-> k - 1] )
    /\ [][ /\ niter' >= niter
           /\ (last'.op = "update" /\ started' # started /\ last'.ok /\ last'.logger)
                 => (log' = Append(log, niter) /\ niter' = niter + 1)
           /\ (last'.op = "update" /\ started' # started /\ last'.ok /\ ~last'.logger)
                 => (log' = log /\ niter' = niter + 1)
           /\ (last'.op = "update" /\ started' # started /\ ~last'.ok)
                 => (log' = log /\ niter' = niter)
           /\ last'.op # "update" => (log' = log /\ niter' = niter) ]_vars

\* two logged update calls in a row after construction
C4_Witness == niter = 2 /\ log = <<0, 1>> /\ last.op = "update" /\ last.logger

-----------------------------------------------------------------------------
(* C5 *)

AllEntriesEqual(s) == \A i, j \in 1..Len(s) : s[i] = s[j]

\* C5 (as claimed): compute returns an array of length n (n the agent count;
\* the length of an array is the size of its first axis), one value per agent,
\* every entry the same scalar.
C5_LengthN ==
    (last.op = "compute" /\ last.ok)
        => /\ Head(last.shape) = NAgents
           /\ Len(last.entries) = NAgents
           /\ AllEntriesEqual(last.entries)

\* C5 (amended): every compute call that returns, returns a two-dimensional
\* array of shape (1, n): a single row holding n values, one per agent, all
\* equal to the same scalar.
C5_OneRowOfN ==
    (last.op = "compute" /\ last.ok)
        => /\ last.shape = <<1, NAgents>>
           /\ Len(last.entries) = NAgents
           /\ AllEntriesEqual(last.entries)

\* compute returned for three agents
C5_Witness ==
    last.op = "compute" /\ last.ok /\ NAgents = 3 /\ last.shape = <<1, 3>>

-----------------------------------------------------------------------------
(* C6 *)

\* C6 (as claimed): when the transition output width differs from the sum of
\* the agents' observation widths, or some agent's planning output width
\* differs from its action cardinality, compute and update end in a
\* shape-mismatch failure: no call completes normally.
C6_MismatchFails ==
    (SizingMismatch /\ last.op \in {"compute", "update"}) => ~last.ok

-----------------------------------------------------------------------------
(* C7 *)

\* C7: init_from_env derives transition input = sum over agents of (obs size +
\* action count) and transition output = sum over agents of obs size; the
\* transfer variant stores one sizing record per agent, in agent order (source
\* input = obs size, planning input = 2 x obs size, source and planning output
\* = action count); the joint variant stores these four sizes for the last
\* agent only.
C7_Sizing ==
    /\ init_dict.num_in_trans = SumSeq(env.obs) + SumSeq(env.acs)
    /\ init_dict.num_out_trans = SumSeq(env.obs)
    /\ variant = "transfer" =>
          /\ Len(init_dict.init_params) = NAgents
          /\ \A i \in 1..NAgents :
                init_dict.init_params[i] =
                    [num_in_src |-> env.obs[i], num_in_plan |-> 2 * env.obs[i],
                     num_out_src |-> env.acs[i], num_out_plan |-> env.acs[i]]
    /\ variant = "joint" =>
          /\ init_dict.num_in_src = env.obs[NAgents]
          /\ init_dict.num_in_plan = 2 * env.obs[NAgents]
          /\ init_dict.num_out_src = env.acs[NAgents]
          /\ init_dict.num_out_plan = env.acs[NAgents]

\* a joint estimator built from two agents that differ in observation width
\* and action count
C7_Witness ==
    /\ variant = "joint" /\ NAgents = 2
    /\ env.obs[1] # env.obs[2] /\ env.acs[1] # env.acs[2]
    /\ init_dict.num_in_src = env.obs[2] /\ init_dict.num_out_src = env.acs[2]

-----------------------------------------------------------------------------
(* C8 *)

\* what compute must leave alone
Frame == <<niter, trans_dev, source_dev, plan_dev, mode, grads, params, optim>>

\* C8 (as claimed): a compute call leaves the step counter, the device tags,
\* the modes, the parameters, the gradients and the optimizers' state
\* unchanged, and it returns a value on every call.
C8_ComputePureAndTotal ==
    [][ last'.op = "compute" => (Frame' = Frame /\ last'.ok /\ last'.entries # <<>>) ]_vars

\* C8, the part the code keeps: compute changes nothing of the estimator,
\* whether it returns or raises.
C8_ComputeFrame ==
    [][ last'.op = "compute" => (Frame' = Frame /\ loc' = loc /\ nets' = nets) ]_vars

-----------------------------------------------------------------------------
(* C9 *)

\* C9: within an update call the optimizers step in the order transition,
\* planning, source (a call that raises stops after a prefix of it); when an
\* optimizer steps, the gradients of every parameter group it updates hold
\* the backward pass of that step's loss of that call and nothing else; step
\* 1 changes only transition parameters, step 2 only planning parameters,
\* step 3 never transition parameters, and in the joint variant step 3
\* changes both source and planning parameters.
C9_StepDiscipline ==
    /\ Len(steps) <= 3
    /\ (last.op = "update" /\ last.ok) => Len(steps) = 3
    /\ \A k \in 1..Len(steps) :
          LET st == steps[k]
          IN  /\ st.opt = StepOrder[k]
              /\ st.call = started - 1
              /\ \A g \in DOMAIN st.seen : st.seen[g] = {<<LossOf(st.opt), st.call>>}
              /\ st.opt = "transition" => st.changed = {"transition"}
              /\ st.opt = "planning" => st.changed = {"planning"}
              /\ st.opt = "source" =>
                    /\ "transition" \notin st.changed
                    /\ "source" \in st.changed
                    /\ variant = "joint" => st.changed = {"source", "planning"}

\* the second completed update call of a joint estimator: gradients of the
\* first call were there to be cleared
C9_Witness ==
    /\ variant = "joint" /\ niter = 2 /\ Len(steps) = 3
    /\ steps[3].opt = "source" /\ steps[3].call = 1

-----------------------------------------------------------------------------
(* C10 *)

TagsAgree ==
    /\ trans_dev = source_dev /\ source_dev = plan_dev
    /\ trans_dev \in Devices
    /\ loc.transition = trans_dev
    /\ \A i \in 1..Len(loc.source) : loc.source[i] = source_dev
    /\ \A i \in 1..Len(loc.planning) : loc.planning[i] = plan_dev

\* C10: after any sequence of prep_training, prep_rollouts, compute and update
\* calls with devices in {cpu, gpu}, the three device tags are equal, each is
\* cpu or gpu, and each names the device on which every approximator of its
\* group resides; the tags start at cpu and change only in prep_training and
\* prep_rollouts, and only when the requested device differs from the stored
\* tag (to the requested device).
C10_DeviceTags ==
    /\ Tags = <<"cpu", "cpu", "cpu">>
    /\ []TagsAgree
    /\ [][ Tags' # Tags =>
              /\ last'.op \in PrepOps
              /\ last'.device # trans_dev
              /\ Tags' = <<last'.device, last'.device, last'.device>> ]_vars
    /\ [][ (last'.op \in PrepOps /\ last'.device = trans_dev) => Tags' = Tags ]_vars

\* the estimator was moved to the gpu, then updated and queried there
C10_Witness ==
    /\ Tags = <<"gpu", "gpu", "gpu">> /\ loc.transition = "gpu"
    /\ niter >= 1 /\ last.op = "compute"

====
